---- MODULE Spec2Model ----
(***************************************************************************)
(* A model of profkuhl/federated_learning:                                 *)
(*   notebooks/utils/data_utils.py   split_dataset_indices,                *)
(*                                   split_and_distribute                  *)
(*   scripts/distribute_splits.py    main                                  *)
(*                                                                         *)
(* Three specifications share the variables and the actions:               *)
(*   SpecAlloc  split_dataset_indices on larger N and M, the shuffle       *)
(*              having produced the identity permutation;                  *)
(*   SpecPart   split_dataset_indices with every shuffle of [0, N);        *)
(*   Spec       one run of split_and_distribute or of main, the outcome    *)
(*              of every subprocess and file write chosen freely.          *)
(***************************************************************************)
EXTENDS Integers, Sequences, FiniteSets, TLC

VARIABLES
    prog,            \* the function that was called
    pc,              \* the statement the run is at
    outcome,         \* "running", "returned", "raised", "exit0" or "exit1"
    exc,             \* the exception that left the function, or "none"
    num_samples,     \* len(train_data)
    labels_ok,       \* <<len(train_data) = len(train_labels), same for test>>
    split_method,
    inventory,       \* what the inventory file and its query will answer
    client_names,    \* the hosts of [nvflare_clients], in inventory order
    indices,         \* the shuffled np.arange(num_samples)
    left,            \* split_dataset_indices: the pool not yet allocated
    split_sizes,     \* split_dataset_indices: the share vector so far
    pool_log,        \* the value of left after each loop iteration
    client_indices,  \* split_dataset_indices: its result
    tempdir,         \* "none", "open" or "removed"
    scratch,         \* the files now in the temporary directory
    written,         \* every local file ever written by the run
    remote,          \* every remote command issued, in order, with its result
    node,            \* position in client_names of the loops
    stderr,          \* the diagnostics printed to stderr
    stdout           \* the summary lines printed to stdout

vars == <<prog, pc, outcome, exc, num_samples, labels_ok, split_method,
          inventory, client_names, indices, left, split_sizes, pool_log,
          client_indices, tempdir, scratch, written, remote, node, stderr,
          stdout>>

(***************************************************************************)
(* Bounds of the model.                                                    *)
(***************************************************************************)
MaxSamples == 12     \* SpecAlloc: num_samples in 0..MaxSamples
MaxSites == 8        \* SpecAlloc: num_sites in 1..MaxSites
MaxShuffle == 4      \* SpecPart: num_samples in 0..MaxShuffle, all shuffles
MaxPartSites == 4    \* SpecPart: num_sites in 1..MaxPartSites
MaxData == 3         \* Spec: num_samples in 0..MaxData, all shuffles
MaxHosts == 3        \* Spec: at most MaxHosts hosts in the inventory group

(***************************************************************************)
(* split_dataset_indices (data_utils.py 12-55)                             *)
(***************************************************************************)
Methods == {"uniform", "linear", "square", "exponential"}

\* A split method that is none of the four names.
OtherMethod == "bogus"

\* np.exp(i) for i = 1..9, scaled by 10^4 and rounded.  Only the ratio
\* weight / total is used, so the scale cancels; with these values
\* floor(N * w[i] / total) equals int(N * exp(i) / sum(exp)) in IEEE
\* doubles for every N < 200 and M <= 9.
ExpScaled == <<27183, 73891, 200855, 545982, 1484132, 4034288, 10966332,
               29809580, 81030839>>

\* ratio_vec[i-1], i in 1..num_sites (np.linspace(1, M, num=M) is 1, 2, .., M)
RatioVec(method, i) ==
    CASE method = "uniform" -> 1
      [] method = "linear" -> i
      [] method = "square" -> i * i
      [] method = "exponential" -> ExpScaled[i]

RECURSIVE SumRatio(_, _)
SumRatio(method, m) ==
    IF m = 0 THEN 0 ELSE SumRatio(method, m - 1) + RatioVec(method, m)

\* total_ratio = sum(ratio_vec)
TotalRatio(method, m) == SumRatio(method, m)

Max(a, b) == IF a >= b THEN a ELSE b

Min(a, b) == IF a <= b THEN a ELSE b

\* the target rounded up instead of truncated by int()
TargetCeil(n, m, method, i) ==
    (n * RatioVec(method, i + 1) + TotalRatio(method, m) - 1) \div TotalRatio(method, m)

\* int(num_samples * ratio_vec[i] / total_ratio), i counted from 0
Target(n, m, method, i) == (n * RatioVec(method, i + 1)) \div TotalRatio(method, m)

\* the share without the floor of one sample: `max(1, ...)` left out
FloorShareNoFloor(n, m, method, i) == Target(n, m, method, i)

\* x = max(1, int(...))
FloorShare(n, m, method, i) == Max(1, Target(n, m, method, i))

\* the clamp without the reserve for the sites still to come
ClampShareNoReserve(x, lft, m, i) == Min(x, lft)

\* x = min(x, left - (num_sites - 1 - i))
ClampShare(x, lft, m, i) == Min(x, lft - (m - 1 - i))

\* a share computed from the shuffled indices instead of num_samples
ShareOfShuffle(n, m, method, i, lft) ==
    ClampShare(FloorShare(IF indices = <<>> THEN n ELSE indices[1] + 1, m, method, i),
               lft, m, i)

\* the share of site i (0 <= i <= M-2), given the pool that is left
Share(n, m, method, i, lft) == ClampShare(FloorShare(n, m, method, i), lft, m, i)

\* a last share that is given the floor of one sample too
LastShareFloored(lft) == Max(1, lft)

\* split_sizes.append(left): the last site takes what is left (line 44)
LastShare(lft) == lft

\* lines 37-44 as one function of (num_samples, num_sites, split_method):
\* the shares of the sites from site i on, the pool being lft
RECURSIVE SharesFrom(_, _, _, _, _)
SharesFrom(n, m, method, i, lft) ==
    IF i >= m - 1
    THEN <<LastShare(lft)>>
    ELSE LET x == ClampShare(FloorShare(n, m, method, i), lft, m, i)
         IN  <<x>> \o SharesFrom(n, m, method, i + 1, lft - x)

ShareVector(n, m, method) == SharesFrom(n, m, method, 0, n)

\* SIZE_TOTAL of distribute_splits.py, the sample count of the HIGGS split
SIZE_TOTAL == 11000000

\* Python's seq[a:b] on a sequence (negative bounds count from the end,
\* bounds beyond the ends are clipped).
PyBound(k, len) == IF k < 0 THEN Max(k + len, 0) ELSE Min(k, len)

PySlice(seq, a, b) ==
    LET lo == PyBound(a, Len(seq))
        hi == PyBound(b, Len(seq))
    IN  IF lo < hi THEN SubSeq(seq, lo + 1, hi) ELSE <<>>

\* the loop of lines 49-53: the groups cut from idx by the sizes, from
\* position cur on
RECURSIVE SliceFrom(_, _, _)
SliceFrom(idx, sizes, cur) ==
    IF sizes = <<>> THEN <<>>
    ELSE <<PySlice(idx, cur, cur + Head(sizes))>>
         \o SliceFrom(idx, Tail(sizes), cur + Head(sizes))

SliceAll(idx, sizes) == SliceFrom(idx, sizes, 0)

\* the results np.random.shuffle can leave in np.arange(n)
Shuffles(n) == {p \in [1..n -> 0..(n - 1)] : \A i, j \in 1..n : p[i] = p[j] => i = j}

\* np.arange(n)
Arange(n) == [i \in 1..n |-> i - 1]

\* the number of sites split_dataset_indices is called with
num_sites == Len(client_names)

\* where the run goes when split_dataset_indices returns
AfterSplit == IF prog = "split_and_distribute" THEN "write" ELSE "done"

\* a directory that is not removed when its block is left
TempDirExitKeeps(files) == files

\* leaving the with-block of tempfile.TemporaryDirectory: the files left in
\* the directory afterwards
TempDirExit(files) == {}

\* the with-block of lines 143-227 is left, by return, by an exception or at
\* its end
LeaveTempDir ==
    /\ tempdir' = IF tempdir = "open" THEN "removed" ELSE tempdir
    /\ scratch' = TempDirExit(scratch)

SplitFrame == <<prog, num_samples, labels_ok, split_method, inventory,
                client_names, written, remote, node, stderr, stdout>>

\* an exception that is swallowed: the function returns normally
RaiseSwallowed(e) ==
    /\ pc' = "done"
    /\ outcome' = "returned"
    /\ exc' = "none"

\* an exception leaves the function
Raise(e) ==
    /\ pc' = "done"
    /\ outcome' = "raised"
    /\ exc' = e

\* lines 19-21
Shuffle ==
    /\ pc = "shuffle"
    /\ indices' \in Shuffles(num_samples)
    /\ pc' = "ratio"
    /\ UNCHANGED <<SplitFrame, outcome, exc, left, split_sizes, pool_log,
                   client_indices, tempdir, scratch>>

\* lines 24-37: the weights of the method, or ValueError.  Raised inside
\* split_and_distribute's with-block, the error removes the temporary
\* directory on its way out.
Ratio ==
    /\ pc = "ratio"
    /\ IF split_method \in Methods
       THEN /\ left' = num_samples
            /\ split_sizes' = <<>>
            /\ pc' = "alloc"
            /\ UNCHANGED <<outcome, exc, tempdir, scratch>>
       ELSE /\ Raise("ValueError")
            /\ LeaveTempDir
            /\ UNCHANGED <<left, split_sizes>>
    /\ UNCHANGED <<SplitFrame, indices, pool_log, client_indices>>

\* lines 38-43, one iteration
AllocLoop ==
    /\ pc = "alloc"
    /\ Len(split_sizes) < num_sites - 1
    /\ LET i == Len(split_sizes)
           x == Share(num_samples, num_sites, split_method, i, left)
       IN  /\ left' = left - x
           /\ split_sizes' = Append(split_sizes, x)
           /\ pool_log' = Append(pool_log, left - x)
    /\ UNCHANGED <<SplitFrame, pc, outcome, exc, indices, client_indices,
                   tempdir, scratch>>

\* line 44, once range(num_sites - 1) is exhausted
AllocRemainder ==
    /\ pc = "alloc"
    /\ ~(Len(split_sizes) < num_sites - 1)
    /\ split_sizes' = Append(split_sizes, LastShare(left))
    /\ pc' = "slice"
    /\ UNCHANGED <<SplitFrame, outcome, exc, indices, left, pool_log,
                   client_indices, tempdir, scratch>>

\* lines 48-55
SliceIndices ==
    /\ pc = "slice"
    /\ client_indices' = SliceAll(indices, split_sizes)
    /\ pc' = AfterSplit
    /\ outcome' = IF prog = "split_dataset_indices" THEN "returned" ELSE outcome
    /\ UNCHANGED <<SplitFrame, exc, indices, left, split_sizes, pool_log,
                   tempdir, scratch>>

\* m distinct host names
SiteNames(m) == [i \in 1..m |-> "site-" \o ToString(i)]

NoHosts == [kind |-> "none", hosts |-> <<>>]

InitSplit(n, m, method, start) ==
    /\ prog = "split_dataset_indices"
    /\ pc = start
    /\ outcome = "running"
    /\ exc = "none"
    /\ num_samples = n
    /\ labels_ok = <<TRUE, TRUE>>
    /\ split_method = method
    /\ inventory = NoHosts
    /\ client_names = SiteNames(m)
    /\ indices = Arange(n)
    /\ left = 0
    /\ split_sizes = <<>>
    /\ pool_log = <<>>
    /\ client_indices = <<>>
    /\ tempdir = "none"
    /\ scratch = {}
    /\ written = {}
    /\ remote = <<>>
    /\ node = 0
    /\ stderr = <<>>
    /\ stdout = <<>>

InitAlloc ==
    \E n \in 0..MaxSamples, m \in 1..MaxSites, method \in Methods \cup {OtherMethod} :
        InitSplit(n, m, method, "ratio")

NextAlloc == Ratio \/ AllocLoop \/ AllocRemainder \/ SliceIndices

SpecAlloc == InitAlloc /\ [][NextAlloc]_vars

InitPart ==
    \E n \in 0..MaxShuffle, m \in 1..MaxPartSites, method \in Methods \cup {OtherMethod} :
        InitSplit(n, m, method, "shuffle")

NextPart == Shuffle \/ NextAlloc

SpecPart == InitPart /\ [][NextPart]_vars

(***************************************************************************)
(* split_and_distribute (data_utils.py 64-229)                             *)
(***************************************************************************)
\* the inventory group both programs address
Group == "nvflare_clients"

\* the orders in which an inventory can list k hosts
HostOrders(k) ==
    {h \in [1..k -> {SiteNames(k)[i] : i \in 1..k}] :
        \A i, j \in 1..k : h[i] = h[j] => i = j}

\* what the inventory file and `ansible-inventory --list` can answer
Inventories ==
    {[kind |-> k, hosts |-> <<>>] :
        k \in {"missing", "query_failed", "query_timeout", "unparseable",
               "no_group", "no_hosts_key"}}
    \cup {[kind |-> "hosts", hosts |-> h] : h \in UNION {HostOrders(k) : k \in 0..MaxHosts}}

\* what an INI inventory read by configparser can hold
IniInventories ==
    {[kind |-> k, hosts |-> <<>>] : k \in {"missing", "no_group"}}
    \cup {[kind |-> "hosts", hosts |-> h] : h \in UNION {HostOrders(k) : k \in 0..MaxHosts}}

\* the inventory step without the check for an empty group (lines 127-129)
InventoryErrorNoEmptyCheck(inv) ==
    CASE inv.kind = "missing" -> "inventory_not_found"
      [] inv.kind = "query_failed" -> "inventory_query_error"
      [] inv.kind = "query_timeout" -> "raise"
      [] inv.kind = "unparseable" -> "inventory_parse_error"
      [] inv.kind \in {"no_group", "no_hosts_key"} -> "group_not_found"
      [] OTHER -> ""

\* lines 108-140: the diagnostic the inventory step ends the run with, "raise"
\* for the query's timeout (TimeoutExpired is not caught), "" when the hosts
\* are resolved
InventoryError(inv) ==
    CASE inv.kind = "missing" -> "inventory_not_found"
      [] inv.kind = "query_failed" -> "inventory_query_error"
      [] inv.kind = "query_timeout" -> "raise"
      [] inv.kind = "unparseable" -> "inventory_parse_error"
      [] inv.kind \in {"no_group", "no_hosts_key"} -> "group_not_found"
      [] inv.kind = "hosts" /\ inv.hosts = <<>> -> "no_hosts"
      [] OTHER -> ""

\* the outcomes of subprocess.run(..., check=True, timeout=60)
Results == {"ok", "failed", "timeout"}

\* a local file: its name, what it holds and the rows (sample indices) in it
File(name, kind, rows) == [name |-> name, kind |-> kind, rows |-> rows]

NoFile == File("", "", <<>>)

\* f"{client_name}_train.pt" (lines 155 and 197)
TrainFileName(client) == client \o "_train.pt"

TestFileName == "test_data.pt"

\* the full test dataset saved at line 160; the model gives it one row
TestRows == Arange(1)

\* one remote command: the ansible module, the host pattern it targets, the
\* local file a copy carries, and how subprocess.run ended
Command(op, target, file, result) ==
    [op |-> op, target |-> target, file |-> file, result |-> result]

Msg(text, who) == [text |-> text, who |-> who]

\* the file of that name in the temporary directory
ScratchFile(name) ==
    IF \E f \in scratch : f.name = name
    THEN CHOOSE f \in scratch : f.name = name
    ELSE NoFile

\* a reset phase that logs the failure and goes on
ResetAbortsNever(result) == FALSE

\* a reset phase that catches only the non-zero exit, and goes on after a
\* timeout
ResetAbortsOnExitOnly(result) == result = "failed"

\* lines 186-189: `except Exception` ends the run on every failure of the
\* delete or the recreate
ResetAborts(result) == result # "ok"

\* lines 222-225: `except subprocess.CalledProcessError` catches a non-zero
\* exit of a copy, not its timeout
CopyCaught(result) == result = "failed"

\* copy commands addressed to the whole group
CopyTargetGroup(client) == "nvflare_clients"

\* lines 202 and 212: the host pattern of the copy commands for one client
CopyTarget(client) == client

\* lines 149-150: the index group saved under the name of the client at
\* position i
GroupOf(i) == client_indices[i]

RunFrame == <<prog, num_samples, labels_ok, split_method, inventory, indices,
              left, split_sizes, pool_log, client_indices>>

\* return from inside or outside the with-block
Return ==
    /\ pc' = "done"
    /\ outcome' = "returned"
    /\ exc' = "none"

\* the validation without the check of the test lengths (lines 95-97)
ValidateTrainOnly ==
    /\ pc = "validate"
    /\ IF ~labels_ok[1]
       THEN /\ stdout' = Append(stdout, Msg("train_length_mismatch", ""))
            /\ Return
       ELSE /\ pc' = "inventory"
            /\ UNCHANGED <<stdout, outcome, exc>>
    /\ UNCHANGED <<RunFrame, client_names, tempdir, scratch, written, remote,
                   node, stderr>>

\* lines 92-105
Validate ==
    /\ pc = "validate"
    /\ IF ~labels_ok[1]
       THEN /\ stdout' = Append(stdout, Msg("train_length_mismatch", ""))
            /\ Return
       ELSE IF ~labels_ok[2]
       THEN /\ stdout' = Append(stdout, Msg("test_length_mismatch", ""))
            /\ Return
       ELSE /\ pc' = "inventory"
            /\ UNCHANGED <<stdout, outcome, exc>>
    /\ UNCHANGED <<RunFrame, client_names, tempdir, scratch, written, remote,
                   node, stderr>>

\* lines 108-143
QueryInventory ==
    /\ pc = "inventory"
    /\ LET err == InventoryError(inventory)
       IN  IF err = "raise"
           THEN /\ Raise("TimeoutExpired")
                /\ UNCHANGED <<client_names, tempdir, node, stderr>>
           ELSE IF err # ""
           THEN /\ stderr' = Append(stderr, Msg(err, ""))
                /\ Return
                /\ UNCHANGED <<client_names, tempdir, node>>
           ELSE /\ client_names' = inventory.hosts
                /\ tempdir' = "open"
                /\ node' = 1
                /\ pc' = "shuffle"
                /\ UNCHANGED <<outcome, exc, stderr>>
    /\ UNCHANGED <<RunFrame, scratch, written, remote, stdout>>

\* lines 149-156, one iteration: torch.save writes the shard or fails
WriteShard ==
    /\ pc = "write"
    /\ node <= Len(client_names)
    /\ \E saved \in BOOLEAN :
        IF saved
        THEN LET f == File(TrainFileName(client_names[node]), "train", GroupOf(node))
             IN  /\ scratch' = scratch \cup {f}
                 /\ written' = written \cup {f}
                 /\ node' = node + 1
                 /\ UNCHANGED <<pc, outcome, exc, tempdir>>
        ELSE /\ Raise("IOError")
             /\ LeaveTempDir
             /\ UNCHANGED <<written, node>>
    /\ UNCHANGED <<RunFrame, client_names, remote, stderr, stdout>>

\* lines 158-160
SaveTest ==
    /\ pc = "write"
    /\ node > Len(client_names)
    /\ \E saved \in BOOLEAN :
        IF saved
        THEN LET f == File(TestFileName, "test", TestRows)
             IN  /\ scratch' = scratch \cup {f}
                 /\ written' = written \cup {f}
                 /\ pc' = "delete"
                 /\ UNCHANGED <<outcome, exc, tempdir>>
        ELSE /\ Raise("IOError")
             /\ LeaveTempDir
             /\ UNCHANGED written
    /\ UNCHANGED <<RunFrame, client_names, remote, node, stderr, stdout>>

\* one command of the reset phase (lines 179-189)
Reset(at, op, next) ==
    /\ pc = at
    /\ \E r \in Results :
        /\ remote' = Append(remote, Command(op, Group, NoFile, r))
        /\ IF ResetAborts(r)
           THEN /\ stderr' = Append(stderr, Msg("reset_error", ""))
                /\ Return
                /\ LeaveTempDir
                /\ UNCHANGED node
           ELSE /\ pc' = next
                /\ node' = 1
                /\ UNCHANGED <<outcome, exc, tempdir, scratch, stderr>>
    /\ UNCHANGED <<RunFrame, client_names, written, stdout>>

\* line 181
DeleteRemote == Reset("delete", "delete", "create")

\* line 184
CreateRemote == Reset("create", "create", "copy_train")

\* one copy command of the loop (lines 217-225): after a success the run goes
\* on at `next`; a caught failure goes to the next client; any other ends
\* the run with the exception
Copy(at, name, next) ==
    /\ pc = at
    /\ node <= Len(client_names)
    /\ \E r \in Results :
        LET client == client_names[node]
        IN  /\ remote' = Append(remote,
                    Command("copy", CopyTarget(client), ScratchFile(name), r))
            /\ IF r = "ok"
               THEN /\ pc' = next
                    /\ node' = IF next = "copy_train" THEN node + 1 ELSE node
                    /\ UNCHANGED <<outcome, exc, tempdir, scratch, stderr>>
               ELSE IF CopyCaught(r)
               THEN /\ stderr' = Append(stderr, Msg("copy_error", client))
                    /\ pc' = "copy_train"
                    /\ node' = node + 1
                    /\ UNCHANGED <<outcome, exc, tempdir, scratch>>
               ELSE /\ Raise("TimeoutExpired")
                    /\ LeaveTempDir
                    /\ UNCHANGED <<node, stderr>>
    /\ UNCHANGED <<RunFrame, client_names, written, stdout>>

\* line 219
CopyTrain ==
    /\ node <= Len(client_names)
    /\ Copy("copy_train", TrainFileName(client_names[node]), "copy_test")

\* line 220
CopyTest == Copy("copy_test", TestFileName, "copy_train")

\* the summary printed after the loop (line 227)
Summary == Msg("successfully_distributed_all_files", "")

\* lines 227-229
Finish ==
    /\ pc = "copy_train"
    /\ node > Len(client_names)
    /\ stdout' = stdout \o <<Summary, Msg("process_complete", "")>>
    /\ Return
    /\ LeaveTempDir
    /\ UNCHANGED <<RunFrame, client_names, written, remote, node, stderr>>

(***************************************************************************)
(* main (distribute_splits.py 18-148)                                      *)
(***************************************************************************)
\* sys.exit(1)
Exit1 ==
    /\ pc' = "done"
    /\ outcome' = "exit1"

\* the outcomes of subprocess.run(..., check=True), which has no timeout
CliResults == {"ok", "failed"}

\* the directory of split files prepare_data_split.py fills (line 84)
SplitDir == File("data_splits", "splits", <<>>)

\* lines 123-130: the host pattern of the one copy command
CliCopyTarget == Group

CliFrame == <<RunFrame, exc, tempdir, scratch, node>>

\* lines 63-78
CliInventory ==
    /\ pc = "cli_inventory"
    /\ IF inventory.kind = "missing"
       THEN /\ stderr' = Append(stderr, Msg("inventory_not_found", ""))
            /\ Exit1
            /\ UNCHANGED client_names
       ELSE IF inventory.kind = "no_group"
       THEN /\ stderr' = Append(stderr, Msg("group_not_found", ""))
            /\ Exit1
            /\ UNCHANGED client_names
       ELSE /\ client_names' = inventory.hosts
            /\ pc' = "cli_generate"
            /\ UNCHANGED <<outcome, stderr>>
    /\ UNCHANGED <<CliFrame, written, remote, stdout>>

\* lines 80-109
CliGenerate ==
    /\ pc = "cli_generate"
    /\ \E r \in CliResults :
        IF r = "ok"
        THEN /\ written' = written \cup {SplitDir}
             /\ pc' = "cli_mkdir"
             /\ UNCHANGED <<outcome, stderr>>
        ELSE /\ stderr' = Append(stderr, Msg("generate_error", ""))
             /\ Exit1
             /\ UNCHANGED written
    /\ UNCHANGED <<CliFrame, client_names, remote, stdout>>

\* lines 114-121, 132-134 and 145-148
CliMkdir ==
    /\ pc = "cli_mkdir"
    /\ \E r \in CliResults :
        /\ remote' = Append(remote, Command("create", Group, NoFile, r))
        /\ IF r = "ok"
           THEN /\ pc' = "cli_copy"
                /\ UNCHANGED <<outcome, stderr>>
           ELSE /\ stderr' = Append(stderr, Msg("distribution_error", ""))
                /\ Exit1
    /\ UNCHANGED <<CliFrame, client_names, written, stdout>>

\* lines 123-130 and 136-148
CliCopy ==
    /\ pc = "cli_copy"
    /\ \E r \in CliResults :
        /\ remote' = Append(remote, Command("copy", CliCopyTarget, SplitDir, r))
        /\ IF r = "ok"
           THEN /\ stdout' = Append(stdout, Msg("successfully_distributed_split_files", ""))
                /\ pc' = "done"
                /\ outcome' = "returned"
                /\ UNCHANGED stderr
           ELSE /\ stderr' = Append(stderr, Msg("distribution_error", ""))
                /\ Exit1
                /\ UNCHANGED stdout
    /\ UNCHANGED <<CliFrame, client_names, written>>

(***************************************************************************)
(* One run of split_and_distribute or of main                              *)
(***************************************************************************)
InitRun(p, start, n, lab, method, inv) ==
    /\ prog = p
    /\ pc = start
    /\ outcome = "running"
    /\ exc = "none"
    /\ num_samples = n
    /\ labels_ok = lab
    /\ split_method = method
    /\ inventory = inv
    /\ client_names = <<>>
    /\ indices = Arange(n)
    /\ left = 0
    /\ split_sizes = <<>>
    /\ pool_log = <<>>
    /\ client_indices = <<>>
    /\ tempdir = "none"
    /\ scratch = {}
    /\ written = {}
    /\ remote = <<>>
    /\ node = 0
    /\ stderr = <<>>
    /\ stdout = <<>>

Init ==
    \/ \E n \in 0..MaxData, lab \in BOOLEAN \X BOOLEAN,
          method \in Methods \cup {OtherMethod}, inv \in Inventories :
           InitRun("split_and_distribute", "validate", n, lab, method, inv)
    \/ \E method \in Methods, inv \in IniInventories :
           InitRun("main", "cli_inventory", 0, <<TRUE, TRUE>>, method, inv)

Next ==
    \/ Validate \/ QueryInventory
    \/ Shuffle \/ Ratio \/ AllocLoop \/ AllocRemainder \/ SliceIndices
    \/ WriteShard \/ SaveTest
    \/ DeleteRemote \/ CreateRemote
    \/ CopyTrain \/ CopyTest \/ Finish
    \/ CliInventory \/ CliGenerate \/ CliMkdir \/ CliCopy

Spec == Init /\ [][Next]_vars

(***************************************************************************)
(* Properties                                                              *)
(***************************************************************************)
Elems(seq) == {seq[k] : k \in DOMAIN seq}

RECURSIVE SumSeq(_)
SumSeq(seq) == IF seq = <<>> THEN 0 ELSE Head(seq) + SumSeq(Tail(seq))

\* split_dataset_indices has computed the whole share vector
AllocDone ==
    /\ prog = "split_dataset_indices"
    /\ pc = "slice" \/ (pc = "done" /\ exc = "none")

\* split_dataset_indices has returned its groups
SplitReturned ==
    /\ prog = "split_dataset_indices"
    /\ pc = "done"
    /\ exc = "none"

Library == prog = "split_and_distribute"

Copies == {k \in DOMAIN remote : remote[k].op = "copy"}

\* C1: for every recognized method and all N >= M >= 1 the share vector has
\* exactly M entries, they sum to N, and every entry is at least 1.
C1_ShareVector ==
    (AllocDone /\ num_samples >= num_sites)
    => /\ Len(split_sizes) = num_sites
       /\ SumSeq(split_sizes) = num_samples
       /\ \A i \in DOMAIN split_sizes : split_sizes[i] >= 1

\* a vector whose first share is 1 only because of the floor of one sample
C1_Witness ==
    /\ AllocDone
    /\ pc = "done"
    /\ split_method = "exponential"
    /\ num_sites >= 3
    /\ num_samples > num_sites
    /\ Target(num_samples, num_sites, split_method, 0) = 0
    /\ split_sizes[1] = 1

\* C2: for all N >= 0 and M >= 1 (N < M included), every method and every
\* shuffle, the M groups are pairwise disjoint, their union is {0..N-1}, and
\* group i has as many indices as entry i of the share vector.
C2_Partition ==
    SplitReturned
    => /\ Len(client_indices) = num_sites
       /\ \A i, j \in DOMAIN client_indices :
            i # j => Elems(client_indices[i]) \cap Elems(client_indices[j]) = {}
       /\ UNION {Elems(client_indices[i]) : i \in DOMAIN client_indices}
            = 0..(num_samples - 1)
       /\ \A i \in DOMAIN client_indices :
            Len(client_indices[i]) = split_sizes[i]

\* the reset phase of split_and_distribute has failed
ResetFailed ==
    /\ Library
    /\ \E k \in DOMAIN remote :
        remote[k].op \in {"delete", "create"} /\ remote[k].result # "ok"

\* C3: once the delete or the recreate of remote_root has failed (non-zero
\* exit or timeout), the run is over with a diagnostic and no copy job has
\* been or will be attempted.
C3_ResetAbort ==
    ResetFailed
    => /\ pc = "done"
       /\ outcome = "returned"
       /\ Copies = {}
       /\ remote[Len(remote)].result # "ok"
       /\ stderr # <<>>

\* the recreate timed out after a successful delete
C3_Witness ==
    /\ Library
    /\ pc = "done"
    /\ Len(remote) = 2
    /\ remote[1].result = "ok"
    /\ remote[2].op = "create"
    /\ remote[2].result = "timeout"
    /\ Len(client_names) >= 2

\* the reset phase of split_and_distribute has succeeded
ResetPassed ==
    /\ Library
    /\ \E k \in DOMAIN remote : remote[k].op = "create" /\ remote[k].result = "ok"

Attempted(client) == \E k \in Copies : remote[k].target = client

\* C4: in a run that passed the reset phase, whatever the outcome of each
\* copy (success, non-zero exit, timeout), the run ends only after a copy was
\* attempted for every node of the list.
C4_AllNodesAttempted ==
    (ResetPassed /\ pc = "done")
    => \A i \in DOMAIN client_names : Attempted(client_names[i])

\* C5: a failed copy of a node's private shard does not prevent the copy of
\* the evaluation shard to that node (and the other way round).  Stated of
\* the runs that reach the end of the copy loop, so that a violation does not
\* rest on a run cut short by an exception.
C5_JobsIndependent ==
    (Library /\ pc = "done" /\ outcome = "returned")
    => \A k \in Copies :
        remote[k].result # "ok"
        => /\ \E j \in Copies : /\ remote[j].target = remote[k].target
                                /\ remote[j].file.kind = "train"
           /\ \E j \in Copies : /\ remote[j].target = remote[k].target
                                /\ remote[j].file.kind = "test"

\* C6: the final report tells full success from partial success: full
\* success is reported only if every copy job of every node succeeded.
C6_ReportDistinguishes ==
    (Library /\ pc = "done" /\ Summary \in Elems(stdout))
    => \A k \in Copies : remote[k].result = "ok"

\* the inventory does not resolve to at least one host
InventoryUnresolved == inventory.kind # "hosts" \/ inventory.hosts = <<>>

\* C7: if inventory resolution fails in split_and_distribute, no shard is
\* ever written, no remote command is ever issued, and the run ends with a
\* diagnostic on stderr or with the query's exception.
C7_InventoryAbort ==
    (Library /\ labels_ok = <<TRUE, TRUE>> /\ InventoryUnresolved)
    => /\ written = {}
       /\ remote = <<>>
       /\ tempdir = "none"
       /\ pc \in {"validate", "inventory", "done"}
       /\ pc = "done" => \/ outcome = "raised"
                         \/ outcome = "returned" /\ stderr # <<>>

\* the group exists and has no host
C7_Witness ==
    /\ Library
    /\ inventory.kind = "hosts"
    /\ inventory.hosts = <<>>
    /\ pc = "done"
    /\ stderr = <<Msg("no_hosts", "")>>

\* every shard is saved under the name of the node at its group's position,
\* and every copy job targets one node and carries that node's own shard or
\* the evaluation shard
PrivateDelivery ==
    /\ \A f \in written :
        f.kind = "train"
        => \E i \in DOMAIN client_names : /\ f.name = TrainFileName(client_names[i])
                                          /\ f.rows = client_indices[i]
    /\ \A k \in Copies :
        /\ remote[k].target # Group
        /\ \E i \in DOMAIN client_names :
            /\ remote[k].target = client_names[i]
            /\ \/ remote[k].file = File(TestFileName, "test", TestRows)
               \/ remote[k].file = File(TrainFileName(client_names[i]), "train",
                                        client_indices[i])

\* C8 as stated: in both programs no copy job targets the whole group and a
\* node is only sent its own shard.
C8_PrivateDelivery == PrivateDelivery

\* C8 as amended: that holds of split_and_distribute (main's one copy job
\* targets the whole group).
C8_PrivateDeliveryLibrary == Library => PrivateDelivery

\* the second node of the list, not named site-2, received a non-empty shard
C8_Witness ==
    /\ Library
    /\ Len(client_names) >= 2
    /\ client_names[2] # "site-2"
    /\ \E k \in Copies :
        /\ remote[k].target = client_names[2]
        /\ remote[k].file.kind = "train"
        /\ remote[k].file.rows # <<>>
        /\ remote[k].result = "ok"

\* C9: on every exit path of split_and_distribute the scratch directory is
\* gone and no scratch file remains.
C9_ScratchRemoved ==
    (Library /\ pc = "done")
    => /\ tempdir \in {"none", "removed"}
       /\ scratch = {}

\* shards were written and the run ended by an uncaught timeout of a copy
C9_Witness ==
    /\ Library
    /\ pc = "done"
    /\ exc = "TimeoutExpired"
    /\ tempdir = "removed"
    /\ Cardinality(written) >= 3

\* C10: for linear, square and exponential and all N >= M >= 1 the share
\* vector is non-decreasing in site index, the last site included.
C10_Monotone ==
    (AllocDone /\ split_method \in {"linear", "square", "exponential"}
        /\ num_samples >= num_sites)
    => \A i \in 1..(Len(split_sizes) - 1) : split_sizes[i] <= split_sizes[i + 1]

\* C11: for all N >= 0 and M >= 1 (N < M included) the allocation returns M
\* integers none of which is negative, and for N < M no site with share 0
\* precedes a site with a share of at least 1.
C11_NonNegative ==
    AllocDone
    => /\ Len(split_sizes) = num_sites
       /\ \A i \in DOMAIN split_sizes : split_sizes[i] >= 0
       /\ num_samples < num_sites
          => \A i, j \in DOMAIN split_sizes :
                (i < j /\ split_sizes[i] = 0) => split_sizes[j] < 1

\* C13: the share vector is a function of (N, M, method) alone: whatever the
\* shuffle left in indices, the finished vector is ShareVector(N, M, method).
C13_ShuffleIndependent ==
    AllocDone => split_sizes = ShareVector(num_samples, num_sites, split_method)

\* a finished run whose shuffle was not the identity
C13_Witness ==
    /\ SplitReturned
    /\ num_samples >= 3
    /\ num_sites >= 2
    /\ indices # Arange(num_samples)
    /\ indices[1] # num_samples - 1

\* C16: for all N >= 0 and M >= 1, after the share of site i (0 <= i <= M-2)
\* is allocated the pool that is left is at least M - 1 - i.
C16_PoolReserve ==
    prog = "split_dataset_indices"
    => \A k \in DOMAIN pool_log : pool_log[k] >= num_sites - 1 - (k - 1)

\* fewer samples than sites, and the clamp has cut the first share
C16_Witness ==
    /\ prog = "split_dataset_indices"
    /\ num_samples < num_sites
    /\ Len(pool_log) >= 2
    /\ split_sizes[1] < 1
    /\ pool_log[1] = num_sites - 1

\* the sum of the first k entries
SumFirst(seq, k) == SumSeq(SubSeq(seq, 1, k))

\* C17: for all N >= 0 and M >= 1 (N < M included) the last share is N minus
\* the sum of the first M - 1 shares, so the vector sums to N.
C17_LastTakesRest ==
    AllocDone
    => /\ Len(split_sizes) = num_sites
       /\ split_sizes[num_sites] = num_samples - SumFirst(split_sizes, num_sites - 1)
       /\ SumSeq(split_sizes) = num_samples

\* fewer samples than sites, three sites or more
C17_Witness ==
    /\ AllocDone
    /\ pc = "done"
    /\ num_sites >= 3
    /\ num_samples < num_sites
    /\ split_sizes[num_sites] = 1

\* C18: for uniform and N >= M >= 1 each of the first M - 1 sites receives
\* floor(N / M) and the last N - (M - 1) * floor(N / M); allocate(11000000, 4,
\* uniform) is four shares of 2750000 and allocate(10, 3, uniform) is [3, 3, 4].
C18_Uniform ==
    /\ (AllocDone /\ split_method = "uniform" /\ num_samples >= num_sites)
       => /\ Len(split_sizes) = num_sites
          /\ \A i \in 1..(num_sites - 1) : split_sizes[i] = num_samples \div num_sites
          /\ split_sizes[num_sites]
               = num_samples - (num_sites - 1) * (num_samples \div num_sites)
    /\ ShareVector(SIZE_TOTAL, 4, "uniform") = <<2750000, 2750000, 2750000, 2750000>>
    /\ ShareVector(10, 3, "uniform") = <<3, 3, 4>>

\* the run of allocate(10, 3, uniform)
C18_Witness ==
    /\ AllocDone
    /\ pc = "done"
    /\ split_method = "uniform"
    /\ num_samples = 10
    /\ num_sites = 3
    /\ split_sizes = <<3, 3, 4>>

\* C12: main exits with status 1 on every fatal error of inventory resolution
\* (file missing, group absent, group with zero hosts) and on a failed split
\* generation, and has issued no remote command by then.
C12_CliExits ==
    (/\ prog = "main"
     /\ \/ inventory.kind \in {"missing", "no_group"}
        \/ inventory.hosts = <<>>
        \/ Msg("generate_error", "") \in Elems(stderr))
    => /\ remote = <<>>
       /\ pc = "done" => outcome = "exit1"

\* C14: an unrecognized split method ends split_and_distribute with the
\* ValueError; no shard file is ever written and no remote reset or copy
\* command is ever issued.
C14_UnknownMethod ==
    (Library /\ split_method \notin Methods)
    => /\ written = {}
       /\ scratch = {}
       /\ remote = <<>>
       /\ (pc = "done" /\ labels_ok = <<TRUE, TRUE>> /\ ~InventoryUnresolved)
          => (outcome = "raised" /\ exc = "ValueError")

\* the method was rejected after two hosts were resolved
C14_Witness ==
    /\ Library
    /\ split_method \notin Methods
    /\ pc = "done"
    /\ exc = "ValueError"
    /\ tempdir = "removed"
    /\ Len(client_names) >= 2

\* C15: in split_and_distribute the first remote command is the delete of
\* the whole group, the recreate is issued only after the delete succeeded,
\* every copy only after the recreate succeeded, and nothing but copies
\* follows the reset phase.  Each command has ended when the next is issued.
C15_RemoteOrder ==
    Library
    => \A k \in DOMAIN remote :
        /\ k = 1 => (remote[k].op = "delete" /\ remote[k].target = Group)
        /\ k = 2 => (remote[k].op = "create" /\ remote[k].target = Group)
        /\ k >= 3 => remote[k].op = "copy"
        /\ k >= 2 => remote[1].result = "ok"
        /\ k >= 3 => remote[2].result = "ok"
        /\ k < Len(remote) => remote[k].result \in Results

\* a copy failed and the next copy followed
C15_Witness ==
    /\ Library
    /\ Len(remote) >= 5
    /\ remote[3].result = "failed"
    /\ remote[5].file.kind = "test"

\* C19: if the training or the test features and labels differ in length,
\* split_and_distribute returns before the inventory is queried: no host is
\* resolved, no scratch directory is created, no shard is written and no
\* remote command is issued.
C19_LengthMismatch ==
    (Library /\ labels_ok # <<TRUE, TRUE>>)
    => /\ pc \in {"validate", "done"}
       /\ client_names = <<>>
       /\ stderr = <<>>
       /\ tempdir = "none"
       /\ scratch = {}
       /\ written = {}
       /\ remote = <<>>
       /\ pc = "done" => (outcome = "returned" /\ Len(stdout) = 1)

\* the test lengths differ, the inventory would have resolved
C19_Witness ==
    /\ Library
    /\ labels_ok = <<TRUE, FALSE>>
    /\ inventory.kind = "hosts"
    /\ inventory.hosts # <<>>
    /\ pc = "done"
    /\ stdout = <<Msg("test_length_mismatch", "")>>

====
